---- MODULE Spec2Model ----
(***************************************************************************)
(* Model of the GAIA green evaluator.                                      *)
(*                                                                         *)
(* Spec          green-evaluator/agent/scoring.py: the GAIAScorer object,  *)
(*               its score and batch_score operations.                     *)
(* SpecHelpers   direct calls of GAIAScorer._normalize and _extract_number.*)
(* SpecCalls     a caller making several calls on one scorer.              *)
(* SpecThreads   concurrent callers sharing one scorer.                    *)
(* SpecEvaluator run_evaluation of agent/evaluator.py and of               *)
(*               green-evaluator/agent/evaluator.py, with the loaders of   *)
(*               the two gaia_loader.py modules.                           *)
(* SpecLLM       direct calls of GAIAEvaluator._llm_evaluate.              *)
(* SpecProtocol  green-evaluator/agent/a2a_protocol.py: send_task,         *)
(*               receive_response and send_and_receive of A2AProtocol;     *)
(*               SpecProtocolFair adds that a running call takes steps.    *)
(* SpecServer    purple_baseline/a2a_mock_server.py: the POST /a2a/task    *)
(*               and GET /a2a/response/<task_id> handlers and their dicts. *)
(*                                                                         *)
(* A Python str is a sequence of one-character strings over Alphabet.      *)
(* A Python float is the exact decimal m * 10^x it was written as (IEEE    *)
(* rounding is not modelled); None is the record NoNumber.  The floats 0.0 *)
(* and 1.0 returned as scores are the integers 0 and 1.                    *)
(***************************************************************************)
EXTENDS Integers, Sequences, FiniteSets, TLC

VARIABLES
    numerical_tolerance,  \* GAIAScorer.numerical_tolerance, a rational [n, d]
    pc,                   \* position of the caller / of the running call
    predicted, gold,      \* arguments of the current score call
    result,               \* value returned by score, NoResult before that
    predictions, golds,   \* arguments of the current batch_score call
    acc,                  \* list under construction in batch_score
    results,              \* value returned by batch_score
    raised,               \* exception leaving the current call, NoError if none
    calls,                \* score invocations made by the current call
    hpc,                  \* position of a direct call of a helper
    htext,                \* argument of the helper call
    hnormalized,          \* value returned by _normalize
    hnumber,              \* outcome of _extract_number
    ncalls,               \* calls the caller has made on the scorer
    seen,                 \* the score calls that returned, with their triples
    failures,             \* calls that ended by raising
    threads,              \* the concurrent callers: position, arguments, locals
    package,              \* "agent" (src/agent) or "green" (src/green-evaluator)
    qfile,                \* the raw items of the question file
    max_questions,        \* argument of run_evaluation: <<>> is None, <<n>> is n
    use_llm_scoring,      \* GAIAEvaluator.use_llm_scoring
    purple,               \* the purple agent: its response to each question
    shuffles,             \* calls of random.shuffle since random.seed(RANDOM_SEED)
    run,                  \* number of the run_evaluation call in progress
    epc,                  \* position of the run_evaluation call
    questions,            \* local questions of run_evaluation
    evals,                \* local results of run_evaluation
    summaries,            \* the EvaluationSummary each finished run returned
    llm,                  \* a direct call of _llm_evaluate: arguments, locals, position
    ppc,                  \* position of the A2AProtocol call
    max_wait_time,        \* argument of the call, in ticks of the clock
    poll_interval,        \* argument of receive_response, in ticks
    clock,                \* time.time()
    start_time,           \* local start_time of receive_response
    wire,                 \* the requests the session has made, with their outcomes
    a2a_response,         \* value returned by the call: <<>> is None
    tasks,                \* mock server: the dict tasks
    responses,            \* mock server: the dict responses
    handlers,             \* mock server: the requests being handled
    served                \* mock server: the requests answered, with their answers

scorerVars == <<numerical_tolerance, pc, predicted, gold, result,
                predictions, golds, acc, results, raised, calls>>
helperVars == <<hpc, htext, hnormalized, hnumber>>

callerVars == <<ncalls, seen, failures>>

\* the variables a call of score or batch_score on the scorer cannot reach
evaluatorVars == <<package, qfile, max_questions, use_llm_scoring, purple,
                   shuffles, run, epc, questions, evals, summaries>>

protocolVars == <<ppc, max_wait_time, poll_interval, clock, start_time, wire,
                  a2a_response>>
serverVars == <<tasks, responses, handlers, served>>

\* what the scorer, its callers and run_evaluation do not reach: a direct call
\* of _llm_evaluate, a call on the A2A client, the mock purple server
remoteVars == <<llm, protocolVars, serverVars>>

besideScorer == <<helperVars, callerVars, threads, evaluatorVars, remoteVars>>
besideHelpers == <<scorerVars, callerVars, threads, evaluatorVars, remoteVars>>
besideCaller == <<helperVars, threads, evaluatorVars, remoteVars>>
besideThreads == <<helperVars, callerVars, evaluatorVars, remoteVars>>
besideEvaluator == <<scorerVars, helperVars, callerVars, threads, remoteVars>>
besideLLM == <<scorerVars, helperVars, callerVars, threads, evaluatorVars,
               protocolVars, serverVars>>
besideProtocol == <<scorerVars, helperVars, callerVars, threads, evaluatorVars,
                    llm, serverVars>>
besideServer == <<scorerVars, helperVars, callerVars, threads, evaluatorVars,
                  llm, protocolVars>>

vars == <<scorerVars, helperVars, callerVars, threads, evaluatorVars, remoteVars>>

----------------------------------------------------------------------------
(* Bounds *)

MaxLen == 2
MaxGoldLen == 2
MaxBatch == 2

----------------------------------------------------------------------------
(* Characters and strings *)

Digits == {"0", "1"}
Lower == {"e"}
Upper == {"E"}
Space == {" "}
\* whitespace other than the space
Tab == {"\t"}
\* an upper-case letter that has no lower-case form: U+2102 DOUBLE-STRUCK
\* CAPITAL C, for which str.isupper() is true and str.lower() is the identity
Caseless == {"U+2102"}
Punct == {"-", "."}
\* the characters of the strings given to score: digits, a letter in both
\* cases (also the exponent marker), whitespace, the minus sign and the point
Alphabet == Digits \cup Lower \cup Upper \cup Space \cup Punct
BatchAlphabet == {"1", "e", "E"}

StringsOver(A, n) == UNION {[1..k -> A] : k \in 0..n}

\* the default tolerance and a second, larger one
DefaultTolerance == [n |-> 1, d |-> 100]
Tolerances == {DefaultTolerance, [n |-> 1, d |-> 10]}

\* str.lower() on one character
lower(c) == IF c = "E" THEN "e" ELSE c

\* the regex class \w
IsWord(c) == c \in Digits \cup Lower \cup Upper \cup Caseless \cup {"_"}

\* the regex class \s, and the characters str.strip() removes
IsSpace(c) == c \in Space \cup Tab

\* the regex class \d
IsDigit(c) == c \in Digits

\* str.lower()
LowerStr(s) == [i \in 1..Len(s) |-> lower(s[i])]

\* re.sub(r'[^\w\s]', '', text)
RECURSIVE RemovePunct(_)
RemovePunct(s) ==
    IF s = <<>> THEN <<>>
    ELSE IF IsWord(Head(s)) \/ IsSpace(Head(s))
         THEN <<Head(s)>> \o RemovePunct(Tail(s))
         ELSE RemovePunct(Tail(s))

\* re.sub(r'\s+', ' ', text)
RECURSIVE CollapseSpace(_)
CollapseSpace(s) ==
    IF s = <<>> THEN <<>>
    ELSE IF IsSpace(Head(s))
         THEN IF Len(s) > 1 /\ IsSpace(s[2])
              THEN CollapseSpace(Tail(s))
              ELSE <<" ">> \o CollapseSpace(Tail(s))
         ELSE <<Head(s)>> \o CollapseSpace(Tail(s))

RECURSIVE LStrip(_)
LStrip(s) == IF s # <<>> /\ IsSpace(Head(s)) THEN LStrip(Tail(s)) ELSE s

RECURSIVE RStrip(_)
RStrip(s) ==
    IF s # <<>> /\ IsSpace(s[Len(s)]) THEN RStrip(SubSeq(s, 1, Len(s) - 1)) ELSE s

\* str.strip()
strip(s) == RStrip(LStrip(s))

\* variant: the ends are stripped first, before the punctuation is removed
_normalize_StripFirst(text) == CollapseSpace(RemovePunct(strip(LowerStr(text))))

\* variant: each punctuation character is replaced by a space
PunctToSpace(s) ==
    [i \in 1..Len(s) |-> IF IsWord(s[i]) \/ IsSpace(s[i]) THEN s[i] ELSE " "]

_normalize_PunctToSpace(text) == strip(CollapseSpace(PunctToSpace(LowerStr(text))))

\* variant: the ends are not stripped
_normalize_NoStrip(text) == CollapseSpace(RemovePunct(LowerStr(text)))

_normalize(text) == strip(CollapseSpace(RemovePunct(LowerStr(text))))

\* variant: the comparison folds case
_exact_match_IgnoreCase(p, g) == LowerStr(p) = LowerStr(g)

_exact_match(p, g) == p = g

_normalized_match(p, g) == _normalize(p) = _normalize(g)

----------------------------------------------------------------------------
(* Outcomes of a call: a returned value or a raised exception *)

NoError == [type |-> "none", lens |-> <<>>]
ZeroDivisionError == [type |-> "ZeroDivisionError", lens |-> <<>>]

\* the ValueError of float(): could not convert string to float
FloatValueError == [type |-> "ValueError", lens |-> <<>>]

\* ValueError("Predictions and golds must have same length: {a} != {b}")
ValueError(a, b) == [type |-> "ValueError", lens |-> <<a, b>>]

Returns(v) == [raised |-> NoError, value |-> v]
Raises(e) == [raised |-> e, value |-> 0]

----------------------------------------------------------------------------
(* Numbers *)

NoNumber == [none |-> TRUE, m |-> 0, x |-> 0]

\* the float m * 10^x
Num(m, x) == [none |-> FALSE, m |-> m, x |-> x]

Abs(n) == IF n < 0 THEN -n ELSE n

Min(a, b) == IF a <= b THEN a ELSE b

RECURSIVE Pow10(_)
Pow10(k) == IF k <= 0 THEN 1 ELSE 10 * Pow10(k - 1)

\* number of decimal digits of n >= 0
RECURSIVE NumDigits(_)
NumDigits(n) == IF n < 10 THEN 1 ELSE 1 + NumDigits(n \div 10)

DigitValue(c) == IF c = "1" THEN 1 ELSE 0

\* length of the longest run of \d characters of s that starts at position i
RECURSIVE DigitRun(_, _)
DigitRun(s, i) ==
    IF i >= 1 /\ i <= Len(s) /\ IsDigit(s[i]) THEN 1 + DigitRun(s, i + 1) ELSE 0

\* value of the n digits of s that start at position i
RECURSIVE DigitsValue(_, _, _)
DigitsValue(s, i, n) ==
    IF n = 0 THEN 0
    ELSE 10 * DigitsValue(s, i, n - 1) + DigitValue(s[i + n - 1])

CharAt(s, i) == IF i >= 1 /\ i <= Len(s) THEN s[i] ELSE ""

\* The literal that starts at position i of s: an optional sign, an integer
\* part of n1 digits, an optional point with n2 digits after it, and an
\* exponent when one is complete (e or E, optional sign, n3 >= 1 digits).
\* The parts are found from left to right, each as long as it can be; stop is
\* the position after the literal.
LiteralValue(s, neg, i0, n1, n2, eneg, k, n3) ==
    Num((IF neg THEN -1 ELSE 1)
            * (DigitsValue(s, i0, n1) * Pow10(n2) + DigitsValue(s, i0 + n1 + 1, n2)),
        (IF eneg THEN -1 ELSE 1) * DigitsValue(s, k, n3) - n2)

LiteralEnd(s, neg, i0, n1, dot, n2, j, isE, eneg, k, n3) ==
    [n1 |-> n1, dot |-> dot, n2 |-> n2, isE |-> isE, n3 |-> n3,
     stop |-> IF n3 > 0 THEN k + n3 ELSE j,
     value |-> LiteralValue(s, neg, i0, n1, n2, eneg, k, n3)]

LiteralExpDigits(s, neg, i0, n1, dot, n2, j, isE, eneg, k) ==
    LiteralEnd(s, neg, i0, n1, dot, n2, j, isE, eneg, k,
               IF isE THEN DigitRun(s, k) ELSE 0)

LiteralExp(s, neg, i0, n1, dot, n2, j) ==
    LiteralExpDigits(s, neg, i0, n1, dot, n2, j,
                     CharAt(s, j) \in {"e", "E"},
                     CharAt(s, j + 1) = "-",
                     IF CharAt(s, j + 1) \in {"-", "+"} THEN j + 2 ELSE j + 1)

LiteralFracDigits(s, neg, i0, n1, dot, n2) ==
    LiteralExp(s, neg, i0, n1, dot, n2, i0 + n1 + (IF dot THEN 1 ELSE 0) + n2)

LiteralFrac(s, neg, i0, n1, dot) ==
    LiteralFracDigits(s, neg, i0, n1, dot,
                      IF dot THEN DigitRun(s, i0 + n1 + 1) ELSE 0)

LiteralInt(s, neg, i0, n1) ==
    LiteralFrac(s, neg, i0, n1, CharAt(s, i0 + n1) = ".")

LiteralSigned(s, neg, i0) == LiteralInt(s, neg, i0, DigitRun(s, i0))

Literal(s, i) ==
    LiteralSigned(s, CharAt(s, i) = "-",
                  IF CharAt(s, i) \in {"-", "+"} THEN i + 1 ELSE i)

\* float() of a stripped text t whose literal at position 1 is l: the literal
\* must span the whole text, have a digit before or after the point, and an
\* exponent marker must be followed by its digits; anything else raises
\* ValueError
FloatOf(t, l) ==
    IF l.n1 + l.n2 > 0 /\ l.stop = Len(t) + 1 /\ (l.isE => l.n3 > 0)
    THEN Returns(l.value)
    ELSE Raises(FloatValueError)

FloatStripped(t) == FloatOf(t, Literal(t, 1))

\* float(text)
float(text) == FloatStripped(strip(text))

\* position of the first \d character of s at or after i, 0 if there is none
RECURSIVE FirstDigit(_, _)
FirstDigit(s, i) ==
    IF i > Len(s) THEN 0
    ELSE IF IsDigit(s[i]) THEN i
    ELSE FirstDigit(s, i + 1)

\* re.findall(r'-?\d+\.?\d*(?:[eE][-+]?\d+)?', text), its first element only:
\* the leftmost match starts at the first digit d, or at a '-' directly before
\* it, and every part of the pattern takes as much as it can
MatchFrom(text, start) ==
    [found |-> TRUE, match |-> SubSeq(text, start, Literal(text, start).stop - 1)]

MatchAtDigit(text, d) ==
    IF d = 0 THEN [found |-> FALSE, match |-> <<>>]
    ELSE MatchFrom(text, IF d > 1 /\ text[d - 1] = "-" THEN d - 1 ELSE d)

FirstMatch(text) == MatchAtDigit(text, FirstDigit(text, 1))

\* float(matches[0]) in its try block: a ValueError is caught and None returned
FirstNumber(first) ==
    IF first.raised = NoError THEN Returns(first.value)
    ELSE IF first.raised.type # "ValueError" THEN Raises(first.raised)
    ELSE Returns(NoNumber)

\* if matches: ... return None
FromMatches(matches) ==
    IF ~matches.found THEN Returns(NoNumber)
    ELSE FirstNumber(float(matches.match))

\* variant: a text with no number yields 0.0 instead of None
ZeroDefault(r) == IF r.value.none THEN Returns(Num(0, 0)) ELSE r

ExtractOr_ZeroDefault(text, whole) ==
    IF whole.raised = NoError THEN Returns(whole.value)
    ELSE ZeroDefault(FromMatches(FirstMatch(text)))

_extract_number_ZeroDefault(text) == ExtractOr_ZeroDefault(text, float(text))

\* variant: the ValueError of float() is not caught
ExtractOr_NoTry(text, whole) ==
    IF whole.raised = NoError THEN Returns(whole.value)
    ELSE Raises(whole.raised)

_extract_number_NoTry(text) == ExtractOr_NoTry(text, float(text))

\* variant: the text is not tried as a whole, only the pattern is searched
ExtractOr_RegexOnly(text, whole) == FromMatches(FirstMatch(text))

_extract_number_RegexOnly(text) == ExtractOr_RegexOnly(text, float(text))

\* try: return float(text.strip())  except ValueError: pass
\* then the first regex match, or None
ExtractOr(text, whole) ==
    IF whole.raised = NoError THEN Returns(whole.value)
    ELSE IF whole.raised.type # "ValueError" THEN Raises(whole.raised)
    ELSE FromMatches(FirstMatch(text))

_extract_number(text) == ExtractOr(text, float(text))

IsZero(v) == v.m = 0

\* order of magnitude of a nonzero number: 10^(Ord-1) <= |v| < 10^Ord
Ord(v) == NumDigits(Abs(v.m)) + v.x

Sign(n) == IF n < 0 THEN -1 ELSE IF n = 0 THEN 0 ELSE 1

\* the sign of |P - G| / |G| - tol for integers P and G # 0
CmpAligned(P, G, tol) == Sign(Abs(P - G) * tol.d - tol.n * Abs(G))

CmpAt(p, g, tol, e) ==
    CmpAligned(p.m * Pow10(p.x - e), g.m * Pow10(g.x - e), tol)

\* the sign of abs(p - g) / abs(g) - tol for g # 0 and 0 <= tol < 9/10; numbers
\* two or more orders of magnitude apart are compared by magnitude alone
CmpRelativeError(p, g, tol) ==
    IF IsZero(p) THEN Sign(tol.d - tol.n)
    ELSE IF Ord(p) >= Ord(g) + 2 \/ Ord(p) <= Ord(g) - 2 THEN 1
    ELSE CmpAt(p, g, tol, Min(p.x, g.x))

----------------------------------------------------------------------------
(* The scorer *)

\* variant: the comparison with the tolerance is strict
WithinTolerance_Strict(predicted_num, gold_num, tol) ==
    IF IsZero(gold_num) THEN Raises(ZeroDivisionError)
    ELSE Returns(CmpRelativeError(predicted_num, gold_num, tol) < 0)

\* abs(predicted_num - gold_num) / abs(gold_num) <= self.numerical_tolerance
WithinTolerance(predicted_num, gold_num, tol) ==
    IF IsZero(gold_num) THEN Raises(ZeroDivisionError)
    ELSE Returns(CmpRelativeError(predicted_num, gold_num, tol) <= 0)

\* variant: two numbers outside the tolerance still get the score 1.0
MatchWithin_AlwaysOne(within) ==
    IF within.raised # NoError THEN Raises(within.raised)
    ELSE Returns(1)

\* if relative_error <= self.numerical_tolerance: return 1.0 / return 0.0
MatchWithin(within) ==
    IF within.raised # NoError THEN Raises(within.raised)
    ELSE IF within.value THEN Returns(1)
    ELSE Returns(0)

\* variant: the gold_num == 0 test is missing
NumericalOf_NoZeroGuard(pe, ge, tol) ==
    IF pe.raised # NoError THEN Raises(pe.raised)
    ELSE IF ge.raised # NoError THEN Raises(ge.raised)
    ELSE IF pe.value.none \/ ge.value.none THEN Returns(0)
    ELSE MatchWithin(WithinTolerance(pe.value, ge.value, tol))

_numerical_match_NoZeroGuard(p, g, tol) ==
    NumericalOf_NoZeroGuard(_extract_number(p), _extract_number(g), tol)

\* _numerical_match once the two numbers are extracted
NumericalOf(pe, ge, tol) ==
    IF pe.raised # NoError THEN Raises(pe.raised)
    ELSE IF ge.raised # NoError THEN Raises(ge.raised)
    ELSE IF pe.value.none \/ ge.value.none THEN Returns(0)
    ELSE IF IsZero(ge.value)
         THEN (IF IsZero(pe.value) THEN Returns(1) ELSE Returns(0))
    ELSE MatchWithin(WithinTolerance(pe.value, ge.value, tol))

_numerical_match(p, g, tol) ==
    NumericalOf(_extract_number(p), _extract_number(g), tol)

\* if numerical_score > 0: return numerical_score, False, False
\* return 0.0, False, False
NumericalStage(numerical_score) ==
    IF numerical_score.raised # NoError THEN Raises(numerical_score.raised)
    ELSE IF numerical_score.value > 0
         THEN Returns(<<numerical_score.value, FALSE, FALSE>>)
    ELSE Returns(<<0, FALSE, FALSE>>)

\* variant: the flags of the normalized match are swapped
score_FlagsSwapped(p, g, tol) ==
    IF _exact_match(p, g) THEN Returns(<<1, TRUE, TRUE>>)
    ELSE IF _normalized_match(p, g) THEN Returns(<<1, TRUE, FALSE>>)
    ELSE NumericalStage(_numerical_match(p, g, tol))

\* variant: the numerical stage runs before the normalized stage
NumericalFirst(p, g, numerical) ==
    IF numerical.raised = NoError /\ numerical.value[1] = 0 /\ _normalized_match(p, g)
    THEN Returns(<<1, FALSE, TRUE>>)
    ELSE numerical

score_NumericalFirst(p, g, tol) ==
    IF _exact_match(p, g) THEN Returns(<<1, TRUE, TRUE>>)
    ELSE NumericalFirst(p, g, NumericalStage(_numerical_match(p, g, tol)))

score(p, g, tol) ==
    IF _exact_match(p, g) THEN Returns(<<1, TRUE, TRUE>>)
    ELSE IF _normalized_match(p, g) THEN Returns(<<1, FALSE, TRUE>>)
    ELSE NumericalStage(_numerical_match(p, g, tol))

----------------------------------------------------------------------------
(* State machine: one GAIAScorer, constructed with a tolerance, and one     *)
(* call of score or of batch_score on it.  The arguments of the call are   *)
(* fixed when the caller is set up; the actions are the steps of the call. *)

NoResult == <<>>

PredictedStrings == StringsOver(Alphabet, MaxLen)
GoldStrings == StringsOver(Alphabet, MaxGoldLen)
\* the strings of a batch: the empty string and the one-character strings
BatchStrings == {<<>>} \cup {<<c>> : c \in BatchAlphabet}
BatchLists == UNION {[1..k -> BatchStrings] : k \in 0..MaxBatch}

\* no helper is called directly
HelperAtRest ==
    /\ hpc = "rest" /\ htext = <<>> /\ hnormalized = <<>>
    /\ hnumber = Returns(NoNumber)

\* the caller has made no call yet
CallerAtRest == ncalls = 0 /\ seen = {} /\ failures = 0 /\ threads = <<>>

\* no evaluator has been constructed
EvaluatorAtRest ==
    /\ package = "none" /\ qfile = <<>> /\ max_questions = <<>>
    /\ use_llm_scoring = FALSE /\ purple = <<>> /\ shuffles = 0
    /\ run = 0 /\ epc = "rest"
    /\ questions = <<>> /\ evals = <<>> /\ summaries = <<>>

\* _llm_evaluate is not called directly
NoCall == [pc |-> "rest"]
LLMAtRest == llm = NoCall

\* no call is made on the A2A client
ProtocolAtRest ==
    /\ ppc = "rest" /\ max_wait_time = 0 /\ poll_interval = 0
    /\ clock = 0 /\ start_time = 0 /\ wire = <<>> /\ a2a_response = <<>>

\* the mock server is not started
ServerAtRest == tasks = {} /\ responses = {} /\ handlers = <<>> /\ served = <<>>

RemoteAtRest == LLMAtRest /\ ProtocolAtRest /\ ServerAtRest

\* GAIAScorer.__init__, and the call the caller is about to make
Init ==
    /\ numerical_tolerance \in Tolerances
    /\ \/ /\ pc = "score_call"
          /\ predicted \in PredictedStrings /\ gold \in GoldStrings
          /\ predictions = <<>> /\ golds = <<>>
       \/ /\ pc = "batch_call"
          /\ predicted = <<>> /\ gold = <<>>
          /\ predictions \in BatchLists /\ golds \in BatchLists
    /\ result = NoResult
    /\ acc = <<>> /\ results = NoResult
    /\ raised = NoError
    /\ calls = 0
    /\ HelperAtRest
    /\ CallerAtRest
    /\ EvaluatorAtRest
    /\ RemoteAtRest

\* the call of score ends with outcome r
ScoreEnds(r) ==
    IF r.raised = NoError
    THEN result' = r.value /\ raised' = raised /\ pc' = "score_returned"
    ELSE result' = result /\ raised' = r.raised /\ pc' = "score_raised"

\* variant: a call of score widens the tolerance the scorer keeps
Score_WidensTolerance ==
    /\ pc = "score_call"
    /\ calls' = calls + 1
    /\ ScoreEnds(score(predicted, gold, numerical_tolerance))
    /\ numerical_tolerance' = [n |-> 1, d |-> 10]
    /\ UNCHANGED <<predicted, gold, predictions, golds, acc, results>>
    /\ UNCHANGED besideScorer

\* GAIAScorer.score(predicted, gold), entry to return or raise
Score ==
    /\ pc = "score_call"
    /\ calls' = calls + 1
    /\ ScoreEnds(score(predicted, gold, numerical_tolerance))
    /\ UNCHANGED <<numerical_tolerance, predicted, gold,
                   predictions, golds, acc, results>>
    /\ UNCHANGED besideScorer

\* GAIAScorer.batch_score(ps, gs) is entered
BatchCall ==
    /\ pc = "batch_call"
    /\ pc' = "batch_check"
    /\ UNCHANGED <<numerical_tolerance, predicted, gold, result,
                   predictions, golds, acc, results, raised, calls>>
    /\ UNCHANGED besideScorer

\* variant: the lengths are not compared
BatchCheck_NoCheck ==
    /\ pc = "batch_check"
    /\ pc' = "batch_loop"
    /\ UNCHANGED <<numerical_tolerance, predicted, gold, result,
                   predictions, golds, acc, results, raised, calls>>
    /\ UNCHANGED besideScorer

\* if len(predictions) != len(golds): raise ValueError(...)
BatchCheck ==
    /\ pc = "batch_check"
    /\ IF Len(predictions) # Len(golds)
       THEN raised' = ValueError(Len(predictions), Len(golds)) /\ pc' = "batch_raised"
       ELSE raised' = raised /\ pc' = "batch_loop"
    /\ UNCHANGED <<numerical_tolerance, predicted, gold, result,
                   predictions, golds, acc, results, calls>>
    /\ UNCHANGED besideScorer

\* variant: each result is put at the front of the list
StepEnds_Prepend(r) ==
    IF r.raised = NoError
    THEN acc' = <<r.value>> \o acc /\ raised' = raised /\ pc' = pc
    ELSE acc' = acc /\ raised' = r.raised /\ pc' = "batch_raised"

BatchStep_Prepend ==
    /\ pc = "batch_loop"
    /\ Len(acc) < Min(Len(predictions), Len(golds))
    /\ calls' = calls + 1
    /\ StepEnds_Prepend(score(predictions[Len(acc) + 1], golds[Len(acc) + 1],
                              numerical_tolerance))
    /\ UNCHANGED <<numerical_tolerance, predicted, gold, result,
                   predictions, golds, results>>
    /\ UNCHANGED besideScorer

\* the score call of one iteration ends with outcome r
StepEnds(r) ==
    IF r.raised = NoError
    THEN acc' = Append(acc, r.value) /\ raised' = raised /\ pc' = pc
    ELSE acc' = acc /\ raised' = r.raised /\ pc' = "batch_raised"

\* one iteration of [self.score(pred, gold) for pred, gold in zip(...)]
BatchStep ==
    /\ pc = "batch_loop"
    /\ Len(acc) < Min(Len(predictions), Len(golds))
    /\ calls' = calls + 1
    /\ StepEnds(score(predictions[Len(acc) + 1], golds[Len(acc) + 1],
                      numerical_tolerance))
    /\ UNCHANGED <<numerical_tolerance, predicted, gold, result,
                   predictions, golds, results>>
    /\ UNCHANGED besideScorer

\* zip is exhausted: the list is returned
BatchReturn ==
    /\ pc = "batch_loop"
    /\ Len(acc) = Min(Len(predictions), Len(golds))
    /\ results' = acc
    /\ pc' = "batch_returned"
    /\ UNCHANGED <<numerical_tolerance, predicted, gold, result,
                   predictions, golds, acc, raised, calls>>
    /\ UNCHANGED besideScorer

Next ==
    \/ Score
    \/ BatchCall
    \/ BatchCheck
    \/ BatchStep
    \/ BatchReturn

Spec == Init /\ [][Next]_vars

----------------------------------------------------------------------------
(* Direct calls of the helpers _normalize and _extract_number *)

MaxTextLen == 4

\* the characters given to _normalize: a digit, a letter in both cases, a
\* capital without a lower case, the underscore, the space and the tab, a
\* punctuation mark
NormalizeAlphabet == {"1", "e", "E", "_", "-"} \cup Caseless \cup Space \cup Tab
NormalizeTexts == StringsOver(NormalizeAlphabet, MaxTextLen)
ExtractTexts == StringsOver(Alphabet, MaxTextLen)

\* GAIAScorer() with the default tolerance, no call of score or batch_score
ScorerAtRest ==
    /\ numerical_tolerance = DefaultTolerance
    /\ pc = "rest"
    /\ predicted = <<>> /\ gold = <<>> /\ result = NoResult
    /\ predictions = <<>> /\ golds = <<>>
    /\ acc = <<>> /\ results = NoResult
    /\ raised = NoError
    /\ calls = 0

HelperInit ==
    /\ ScorerAtRest
    /\ CallerAtRest
    /\ EvaluatorAtRest
    /\ RemoteAtRest
    /\ \/ hpc = "normalize_call" /\ htext \in NormalizeTexts
       \/ hpc = "extract_call" /\ htext \in ExtractTexts
    /\ hnormalized = <<>>
    /\ hnumber = Returns(NoNumber)

\* GAIAScorer._normalize(text), entry to return
Normalize ==
    /\ hpc = "normalize_call"
    /\ hnormalized' = _normalize(htext)
    /\ hpc' = "normalize_returned"
    /\ UNCHANGED <<besideHelpers, htext, hnumber>>

\* GAIAScorer._extract_number(text), entry to return
ExtractNumber ==
    /\ hpc = "extract_call"
    /\ hnumber' = _extract_number(htext)
    /\ hpc' = "extract_returned"
    /\ UNCHANGED <<besideHelpers, htext, hnormalized>>

HelperNext ==
    \/ Normalize
    \/ ExtractNumber

SpecHelpers == HelperInit /\ [][HelperNext]_vars

----------------------------------------------------------------------------
(* A caller that makes one call after another on the same scorer *)

MaxCalls == 3

\* the answers the caller passes: "11" against "10" is within 1/10 and
\* outside 1/100
CallStrings == {<<"1", "1">>, <<"1", "0">>}
CallLists == {<<>>} \cup {<<c>> : c \in CallStrings}

CallerInit ==
    /\ numerical_tolerance \in Tolerances
    /\ pc = "rest"
    /\ predicted = <<>> /\ gold = <<>> /\ result = NoResult
    /\ predictions = <<>> /\ golds = <<>>
    /\ acc = <<>> /\ results = NoResult
    /\ raised = NoError
    /\ calls = 0
    /\ HelperAtRest
    /\ CallerAtRest
    /\ EvaluatorAtRest
    /\ RemoteAtRest

BetweenCalls ==
    pc \in {"rest", "score_returned", "score_raised",
            "batch_returned", "batch_raised"}

\* the caller takes the outcome of the call that ended
Taken ==
    /\ seen' = IF pc = "score_returned"
               THEN seen \cup {<<predicted, gold, result>>} ELSE seen
    /\ failures' = IF pc \in {"score_raised", "batch_raised"}
                   THEN failures + 1 ELSE failures
    /\ ncalls' = ncalls + 1
    /\ result' = NoResult /\ results' = NoResult /\ acc' = <<>>
    /\ raised' = NoError /\ calls' = 0

\* the caller calls scorer.score(p, g)
CallerScores ==
    /\ BetweenCalls
    /\ ncalls < MaxCalls
    /\ \E p \in CallStrings, g \in CallStrings :
           predicted' = p /\ gold' = g
    /\ predictions' = <<>> /\ golds' = <<>>
    /\ pc' = "score_call"
    /\ Taken
    /\ UNCHANGED <<numerical_tolerance, besideCaller>>

\* the caller calls scorer.batch_score(ps, gs)
CallerBatches ==
    /\ BetweenCalls
    /\ ncalls < MaxCalls
    /\ \E ps \in CallLists, gs \in CallLists :
           predictions' = ps /\ golds' = gs
    /\ predicted' = <<>> /\ gold' = <<>>
    /\ pc' = "batch_call"
    /\ Taken
    /\ UNCHANGED <<numerical_tolerance, besideCaller>>

CallerNext ==
    \/ CallerScores
    \/ CallerBatches
    \/ Score
    \/ BatchCall
    \/ BatchCheck
    \/ BatchStep
    \/ BatchReturn

SpecCalls == CallerInit /\ [][CallerNext]_vars

----------------------------------------------------------------------------
(* Callers that run score and batch_score concurrently on one scorer.  Each *)
(* thread has its own arguments and locals; self.numerical_tolerance is the *)
(* only object they share.  A step is one stage of score or one step of the *)
(* loop of batch_score.                                                     *)

NThreads == 2

Threads == 1..NThreads

\* (predicted, gold) of the calls: an exact match, a normalized match, and
\* a pair that is within 1/10 and outside 1/100
ThreadPairs ==
    {<<<<"1", "1">>, <<"1", "1">>>>, <<<<"1", " ">>, <<"1">>>>,
     <<<<"1", "1">>, <<"1", "0">>>>}

\* (predictions, golds) of the batch calls: empty, two pairs, unequal lengths
ThreadBatches ==
    {<<<<>>, <<>>>>,
     <<<<<<"1", "1">>, <<"1", " ">>>>, <<<<"1", "0">>, <<"1">>>>>>,
     <<<<<<"1">>>>, <<>>>>}

\* a thread about to run its call; inside is set once the thread has taken a
\* step while another thread was inside its own call
ThreadAt(kind, pc0, p, g, ps, gs) ==
    [kind |-> kind, pc |-> pc0, predicted |-> p, gold |-> g,
     predictions |-> ps, golds |-> gs, acc |-> <<>>, out |-> NoResult,
     raised |-> NoError, inside |-> FALSE]

ThreadCalls ==
    {ThreadAt("score", "exact", c[1], c[2], <<>>, <<>>) : c \in ThreadPairs}
        \cup {ThreadAt("batch_score", "batch_check", <<>>, <<>>, c[1], c[2]) :
                  c \in ThreadBatches}

ThreadInit ==
    /\ ScorerAtRest
    /\ HelperAtRest
    /\ ncalls = 0 /\ seen = {} /\ failures = 0
    /\ EvaluatorAtRest
    /\ RemoteAtRest
    /\ threads \in [Threads -> ThreadCalls]

Running(th) == th.pc \notin {"returned", "raised"}
Inside(th) == Running(th) /\ (th.pc \in {"exact", "batch_check"} => th.acc # <<>>)

\* thread t takes a step that leaves it as th
Step(t, th) ==
    /\ threads' = [threads EXCEPT ![t] =
           [th EXCEPT !.inside =
               @ \/ \E u \in Threads \ {t} : Inside(threads[u])]]
    /\ UNCHANGED <<scorerVars, besideThreads>>

\* the score call of a thread ends with outcome r: the call was the
\* thread's own, or one iteration of its batch_score
ThreadEnds(th, r) ==
    IF r.raised # NoError THEN [th EXCEPT !.raised = r.raised, !.pc = "raised"]
    ELSE IF th.kind = "score" THEN [th EXCEPT !.out = r.value, !.pc = "returned"]
    ELSE [th EXCEPT !.acc = Append(th.acc, r.value), !.pc = "batch_loop"]

\* if self._exact_match(predicted, gold): return 1.0, True, True
TExact(t) ==
    /\ threads[t].pc = "exact"
    /\ Step(t, IF _exact_match(threads[t].predicted, threads[t].gold)
               THEN ThreadEnds(threads[t], Returns(<<1, TRUE, TRUE>>))
               ELSE [threads[t] EXCEPT !.pc = "normalized"])

\* if self._normalized_match(predicted, gold): return 1.0, False, True
TNormalized(t) ==
    /\ threads[t].pc = "normalized"
    /\ Step(t, IF _normalized_match(threads[t].predicted, threads[t].gold)
               THEN ThreadEnds(threads[t], Returns(<<1, FALSE, TRUE>>))
               ELSE [threads[t] EXCEPT !.pc = "numerical"])

\* variant: the numerical stage leaves a wider tolerance in the scorer
TNumerical_WidensTolerance(t) ==
    /\ threads[t].pc = "numerical"
    /\ threads' = [threads EXCEPT ![t] =
           ThreadEnds(threads[t],
                      NumericalStage(_numerical_match(threads[t].predicted,
                                                      threads[t].gold,
                                                      numerical_tolerance)))]
    /\ numerical_tolerance' = [n |-> 1, d |-> 10]
    /\ UNCHANGED <<pc, predicted, gold, result, predictions, golds, acc,
                   results, raised, calls, besideThreads>>

\* the numerical stage, which reads self.numerical_tolerance
TNumerical(t) ==
    /\ threads[t].pc = "numerical"
    /\ Step(t, ThreadEnds(threads[t],
                          NumericalStage(_numerical_match(threads[t].predicted,
                                                          threads[t].gold,
                                                          numerical_tolerance))))

\* if len(predictions) != len(golds): raise ValueError(...)
TBatchCheck(t) ==
    /\ threads[t].pc = "batch_check"
    /\ Step(t, IF Len(threads[t].predictions) # Len(threads[t].golds)
               THEN [threads[t] EXCEPT
                        !.raised = ValueError(Len(threads[t].predictions),
                                              Len(threads[t].golds)),
                        !.pc = "raised"]
               ELSE [threads[t] EXCEPT !.pc = "batch_loop"])

\* the next pair of zip(predictions, golds) is given to self.score
TBatchStep(t) ==
    /\ threads[t].pc = "batch_loop"
    /\ Len(threads[t].acc) < Min(Len(threads[t].predictions), Len(threads[t].golds))
    /\ Step(t, [threads[t] EXCEPT
                   !.predicted = threads[t].predictions[Len(threads[t].acc) + 1],
                   !.gold = threads[t].golds[Len(threads[t].acc) + 1],
                   !.pc = "exact"])

\* zip is exhausted: the list is returned
TBatchReturn(t) ==
    /\ threads[t].pc = "batch_loop"
    /\ Len(threads[t].acc) = Min(Len(threads[t].predictions), Len(threads[t].golds))
    /\ Step(t, [threads[t] EXCEPT !.out = threads[t].acc, !.pc = "returned"])

ThreadNext ==
    \/ \E t \in Threads : TExact(t)
    \/ \E t \in Threads : TNormalized(t)
    \/ \E t \in Threads : TNumerical(t)
    \/ \E t \in Threads : TBatchCheck(t)
    \/ \E t \in Threads : TBatchStep(t)
    \/ \E t \in Threads : TBatchReturn(t)

SpecThreads == ThreadInit /\ [][ThreadNext]_vars

----------------------------------------------------------------------------
(* GAIAEvaluator.run_evaluation, in its two versions: package "agent" is    *)
(* src/agent (evaluator.py, gaia_loader.py), package "green" is             *)
(* src/green-evaluator/agent.  The runs of one behaviour are made one after *)
(* the other in the same process, on evaluators constructed alike, as       *)
(* tests/test_end_to_end.py does.  Metadata is not modelled.                *)

MaxFileLen == 2

\* the number of runs test_evaluation_reproducibility makes
NRuns == 2

\* a key that a raw item does not have; the response that did not come
Absent == <<"(absent)">>
NoResponse == <<"(none)">>

\* a raw item with the standard keys (a is Absent for an item without a gold
\* answer), and one with the alternate keys
Standard(i, q, a) ==
    [id |-> i, question_id |-> Absent, question |-> q, query |-> Absent,
     gold_answer |-> a, answer |-> Absent, ground_truth |-> Absent]

Alternate(i, q, a) ==
    [id |-> Absent, question_id |-> i, question |-> Absent, query |-> q,
     gold_answer |-> Absent, answer |-> a, ground_truth |-> Absent]

RawItems ==
    {Standard(<<"a">>, <<"x">>, <<"1", "1">>),
     Standard(<<"b">>, <<"y">>, <<"1", "0">>),
     Alternate(<<"c">>, <<"z">>, <<"1">>),
     Standard(<<"d">>, <<"w">>, Absent)}

Files == StringsOver(RawItems, MaxFileLen)

\* None, or a number of questions
NoLimit == <<>>
MaxQuestionsArgs == {NoLimit} \cup {<<n>> : n \in 0..MaxFileLen}

\* the texts of the questions a loader can give
QuestionTexts == {<<"x">>, <<"y">>, <<"z">>, <<"w">>, <<>>}

\* the purple agents: one answers every question it is given a text for (w
\* with a blank), one never responds
PurpleAgents ==
    {[q \in QuestionTexts |->
         IF q = <<"x">> THEN <<"1", "1">>
         ELSE IF q = <<"y">> THEN <<"1", "1", " ">>
         ELSE IF q = <<"z">> THEN <<"e">>
         ELSE IF q = <<"w">> THEN <<" ">>
         ELSE NoResponse],
     [q \in QuestionTexts |-> NoResponse]}

\* a line of the coordinator's text after line.strip(): whether it starts
\* with "FINAL_SCORE:", and the text after the first ":" (of any other line,
\* its text)
LLMLine(final, rest) == [final |-> final, rest |-> rest]

\* what running the coordinator gives: an exception, or the lines of its text
Raising == [raises |-> TRUE, output |-> <<>>]
Output(lines) == [raises |-> FALSE, output |-> lines]

\* what the LLM coordinator makes of a request of run_evaluation: it raises,
\* its text has no score, the score 1, the score 11
LLMReplies ==
    {Raising, Output(<<>>), Output(<<LLMLine(TRUE, <<"1">>)>>),
     Output(<<LLMLine(TRUE, <<"1", "1">>)>>)}

\* item.get(key, default)
Get(v, default) == IF v = Absent THEN default ELSE v

\* a or b, of values that are absent (None) or strings
Or(a, b) == IF a # Absent /\ a # <<>> THEN a ELSE b

\* str(hash(q)): a string that q determines within one process
HashOf(q) == <<"#">> \o q

GAIAQuestion(i, q, a) == [id |-> i, question |-> q, gold_answer |-> a]

\* GAIALoader._normalize_question of src/agent/gaia_loader.py
Agent_normalize_question(item) ==
    GAIAQuestion(
        Or(item.id, Or(item.question_id, HashOf(Get(item.question, <<>>)))),
        Or(item.question, Or(item.query, <<>>)),
        Or(item.gold_answer, Or(item.answer, Or(item.ground_truth, <<>>))))

\* GAIALoader._normalize_question of src/green-evaluator/agent/gaia_loader.py
_normalize_question(item) ==
    GAIAQuestion(Get(item.id, <<>>), Get(item.question, <<>>),
                 Get(item.gold_answer, <<>>))

\* GAIALoader.load_questions(filename), no level filter
load_questions(pkg, items) ==
    [i \in 1..Len(items) |->
        IF pkg = "agent" THEN Agent_normalize_question(items[i])
        ELSE _normalize_question(items[i])]

\* The order the k-th random.shuffle after random.seed(30) gives a list of n
\* elements when the shuffles before it were of lists of n elements too
\* (CPython's Mersenne Twister; n <= 4, k <= 3): the element put at each
\* position.
ShuffleOrder(n, k) ==
    IF n = 2 THEN (IF k = 1 THEN <<1, 2>> ELSE <<2, 1>>)
    ELSE IF n = 3 THEN (IF k = 1 THEN <<1, 2, 3>> ELSE <<2, 1, 3>>)
    ELSE IF n = 4 THEN (IF k = 1 THEN <<2, 1, 4, 3>>
                        ELSE IF k = 2 THEN <<3, 1, 4, 2>> ELSE <<3, 1, 2, 4>>)
    ELSE [i \in 1..n |-> i]

\* random.shuffle(qs), the k-th since the seed was set
shuffle(qs, k) == [i \in 1..Len(qs) |-> qs[ShuffleOrder(Len(qs), k)[i]]]

\* if max_questions: questions = questions[:max_questions]
Truncate(qs, mq) ==
    IF mq # NoLimit /\ mq[1] # 0 THEN SubSeq(qs, 1, Min(mq[1], Len(qs))) ELSE qs

EvaluatorInit ==
    /\ ScorerAtRest
    /\ HelperAtRest
    /\ CallerAtRest
    /\ RemoteAtRest
    /\ package \in {"agent", "green"}
    /\ qfile \in Files
    /\ max_questions \in MaxQuestionsArgs
    /\ use_llm_scoring \in (IF package = "green" THEN BOOLEAN ELSE {FALSE})
    /\ purple \in PurpleAgents
    /\ shuffles = 0
    /\ run = 1 /\ epc = "load"
    /\ questions = <<>> /\ evals = <<>> /\ summaries = <<>>

\* questions = self.loader.load_questions(filename)
Load ==
    /\ epc = "load"
    /\ questions' = load_questions(package, qfile)
    /\ epc' = "select"
    /\ UNCHANGED <<package, qfile, max_questions, use_llm_scoring, purple,
                   shuffles, run, evals, summaries, besideEvaluator>>

\* green: random.shuffle(questions); both: the first max_questions are kept
Select ==
    /\ epc = "select"
    /\ IF package = "green"
       THEN /\ questions' = Truncate(shuffle(questions, shuffles + 1), max_questions)
            /\ shuffles' = shuffles + 1
       ELSE /\ questions' = Truncate(questions, max_questions)
            /\ shuffles' = shuffles
    /\ epc' = "loop"
    /\ UNCHANGED <<package, qfile, max_questions, use_llm_scoring, purple,
                   run, evals, summaries, besideEvaluator>>

\* the answer taken from the purple agent's response r: "" if none came;
\* green strips the text it received
PredictedAnswer(pkg, r) ==
    IF r = NoResponse THEN <<>>
    ELSE IF pkg = "green" THEN strip(r)
    ELSE r

\* the float v of a text without a decimal point, a whole number
IntOf(v) == v.m * Pow10(v.x)

\* variant: a FINAL_SCORE line that does not parse gives the score 0.0
ScoreOr_ZeroOnError(parsed, llm_score) ==
    IF parsed.raised = NoError THEN IntOf(parsed.value) ELSE 0

\* try: llm_score = float(...) / except (ValueError, IndexError): pass
ScoreOr(parsed, llm_score) ==
    IF parsed.raised = NoError THEN IntOf(parsed.value) ELSE llm_score

\* the body of the loop over output.split("\n"), as far as llm_score goes
ParseLine(line, llm_score) ==
    IF line.final THEN ScoreOr(float(line.rest), llm_score) ELSE llm_score

RECURSIVE ParseLines(_, _)
ParseLines(lines, llm_score) ==
    IF lines = <<>> THEN llm_score
    ELSE ParseLines(Tail(lines), ParseLine(Head(lines), llm_score))

LLMEvaluation(llm_score, confidence) ==
    [llm_score |-> llm_score, confidence |-> confidence]

\* GAIAEvaluator._llm_evaluate: coordinator is FALSE when green_coordinator is
\* None; running the coordinator gives reply
_llm_evaluate(coordinator, reply, deterministic_score) ==
    IF ~coordinator THEN LLMEvaluation(deterministic_score, "n/a")
    ELSE IF reply.raises THEN LLMEvaluation(deterministic_score, "error")
    ELSE LLMEvaluation(ParseLines(reply.output, deterministic_score), "medium")

EvaluationResult(q, predicted_answer, final_score, triple, llm_evaluation) ==
    [task_id |-> q.id, question |-> q.question, gold_answer |-> q.gold_answer,
     predicted_answer |-> predicted_answer, score |-> final_score,
     exact_match |-> triple[2], normalized_match |-> triple[3],
     llm_evaluation |-> llm_evaluation]

\* green: green_coordinator is set iff use_llm_scoring (__init__)
\* variant: the LLM is asked whatever the deterministic score is
Appended_LLMAlways(q, predicted_answer, triple) ==
    IF use_llm_scoring /\ predicted_answer # <<>>
    THEN \E reply \in LLMReplies :
             evals' = Append(evals,
                 EvaluationResult(q, predicted_answer,
                                  _llm_evaluate(use_llm_scoring, reply, triple[1]).llm_score, triple,
                                  <<_llm_evaluate(use_llm_scoring, reply, triple[1])>>))
    ELSE evals' = Append(evals,
             EvaluationResult(q, predicted_answer, triple[1], triple, <<>>))

\* the result of question q answered predicted_answer and scored triple:
\* green asks the LLM when it is enabled, the score is 0.0 and there is an
\* answer; llm_evaluation is <<>> for None
Appended(q, predicted_answer, triple) ==
    IF use_llm_scoring /\ triple[1] = 0 /\ predicted_answer # <<>>
    THEN \E reply \in LLMReplies :
             evals' = Append(evals,
                 EvaluationResult(q, predicted_answer,
                                  _llm_evaluate(use_llm_scoring, reply, triple[1]).llm_score, triple,
                                  <<_llm_evaluate(use_llm_scoring, reply, triple[1])>>))
    ELSE evals' = Append(evals,
             EvaluationResult(q, predicted_answer, triple[1], triple, <<>>))

Scored(q, predicted_answer) ==
    Appended(q, predicted_answer,
             score(predicted_answer, q.gold_answer, numerical_tolerance).value)

\* one iteration of the loop over the questions
EvaluateQuestion ==
    /\ epc = "loop"
    /\ Len(evals) < Len(questions)
    /\ Scored(questions[Len(evals) + 1],
              PredictedAnswer(package, purple[questions[Len(evals) + 1].question]))
    /\ UNCHANGED <<package, qfile, max_questions, use_llm_scoring, purple,
                   shuffles, run, epc, questions, summaries, besideEvaluator>>

RECURSIVE TotalScore(_)
TotalScore(rs) == IF rs = <<>> THEN 0 ELSE Head(rs).score + TotalScore(Tail(rs))

\* the float n / d
Ratio(n, d) == [num |-> n, den |-> d]

\* variant: the division is made whatever total_questions is
Rate_NoGuard(total, total_questions) == Ratio(total, total_questions)

\* total / total_questions if total_questions > 0 else 0.0
Rate(total, total_questions) ==
    IF total_questions > 0 THEN Ratio(total, total_questions) ELSE Ratio(0, 1)

EvaluationSummary(rs) ==
    [total_questions |-> Len(rs),
     total_score |-> TotalScore(rs),
     average_score |-> Rate(TotalScore(rs), Len(rs)),
     exact_match_count |-> Len(SelectSeq(rs, LAMBDA r : r.exact_match)),
     exact_match_rate |-> Rate(Len(SelectSeq(rs, LAMBDA r : r.exact_match)), Len(rs)),
     normalized_match_count |-> Len(SelectSeq(rs, LAMBDA r : r.normalized_match)),
     normalized_match_rate |->
         Rate(Len(SelectSeq(rs, LAMBDA r : r.normalized_match)), Len(rs)),
     results |-> rs,
     random_seed |-> IF package = "green" THEN 30 ELSE 42]

\* the loop is over: the summary is computed and returned
Summarize ==
    /\ epc = "loop"
    /\ Len(evals) = Len(questions)
    /\ summaries' = Append(summaries, EvaluationSummary(evals))
    /\ epc' = "returned"
    /\ UNCHANGED <<package, qfile, max_questions, use_llm_scoring, purple,
                   shuffles, run, questions, evals, besideEvaluator>>

\* the next run_evaluation call, with the same arguments
NextRun ==
    /\ epc = "returned"
    /\ run < NRuns
    /\ run' = run + 1
    /\ epc' = "load"
    /\ questions' = <<>> /\ evals' = <<>>
    /\ UNCHANGED <<package, qfile, max_questions, use_llm_scoring, purple,
                   shuffles, summaries, besideEvaluator>>

EvaluatorNext ==
    \/ Load
    \/ Select
    \/ EvaluateQuestion
    \/ Summarize
    \/ NextRun

SpecEvaluator == EvaluatorInit /\ [][EvaluatorNext]_vars

----------------------------------------------------------------------------
(* Direct calls of GAIAEvaluator._llm_evaluate, step by step.  The texts   *)
(* after "FINAL_SCORE:" denote whole numbers or no number; the confidence, *)
(* reasoning and sub_agent_findings lines are lines without a score.       *)

MaxLines == 2

ScoreTexts == {<<"1">>, <<"0">>, <<"1", "1">>, <<" ", "1">>, <<"e">>, <<>>}
LLMLines == {LLMLine(TRUE, t) : t \in ScoreTexts} \cup {LLMLine(FALSE, <<"1">>)}
Replies == {Raising} \cup {Output(ls) : ls \in StringsOver(LLMLines, MaxLines)}

\* the call _llm_evaluate(..., deterministic_score) about to be made
LLMCall(coordinator, reply, deterministic_score) ==
    [pc |-> "call", coordinator |-> coordinator, reply |-> reply,
     deterministic_score |-> deterministic_score,
     llm_score |-> 0, line |-> 0, returned |-> <<>>]

LLMInit ==
    /\ ScorerAtRest
    /\ HelperAtRest
    /\ CallerAtRest
    /\ EvaluatorAtRest
    /\ ProtocolAtRest
    /\ ServerAtRest
    /\ llm \in {LLMCall(c, r, d) : c \in BOOLEAN, r \in Replies, d \in {0, 1}}

LLMReturns(evaluation) ==
    /\ llm' = [llm EXCEPT !.pc = "returned", !.returned = <<evaluation>>]
    /\ UNCHANGED besideLLM

\* if self.green_coordinator is None: return {...}
LLMCheckCoordinator ==
    /\ llm.pc = "call"
    /\ IF ~llm.coordinator
       THEN LLMReturns(LLMEvaluation(llm.deterministic_score, "n/a"))
       ELSE llm' = [llm EXCEPT !.pc = "run"] /\ UNCHANGED besideLLM

\* the runner runs the coordinator: an exception goes to the handler; if
\* none, llm_score = deterministic_score and the loop over the lines begins
LLMRun ==
    /\ llm.pc = "run"
    /\ llm' = IF llm.reply.raises THEN [llm EXCEPT !.pc = "except"]
              ELSE [llm EXCEPT !.pc = "parse",
                               !.llm_score = llm.deterministic_score]
    /\ UNCHANGED besideLLM

\* except Exception as e: return {...}
LLMExcept ==
    /\ llm.pc = "except"
    /\ LLMReturns(LLMEvaluation(llm.deterministic_score, "error"))

\* one line of the text
LLMParseLine ==
    /\ llm.pc = "parse"
    /\ llm.line < Len(llm.reply.output)
    /\ llm' = [llm EXCEPT !.line = llm.line + 1,
                          !.llm_score = ParseLine(llm.reply.output[llm.line + 1],
                                                  llm.llm_score)]
    /\ UNCHANGED besideLLM

\* return {"llm_score": llm_score, ...}
LLMReturn ==
    /\ llm.pc = "parse"
    /\ llm.line = Len(llm.reply.output)
    /\ LLMReturns(LLMEvaluation(llm.llm_score, "medium"))

LLMNext ==
    \/ LLMCheckCoordinator
    \/ LLMRun
    \/ LLMExcept
    \/ LLMParseLine
    \/ LLMReturn

SpecLLM == LLMInit /\ [][LLMNext]_vars

----------------------------------------------------------------------------
(* A2AProtocol: one call of send_and_receive or of receive_response.  Time  *)
(* is counted in ticks of the clock; a request takes at least one tick and *)
(* ends within Timeout ticks (self.timeout).  The retries the session      *)
(* makes are inside the request.                                           *)

MaxWaitTime == 3
Timeout == 2
PollIntervals == {0, 1, 2}

\* poll_interval: float = 1.0, which send_and_receive leaves as it is
DefaultPollInterval == 1

\* None, and the A2AResponse built from the body of a response
NoA2AResponse == <<>>
A2AResponse == <<"A2AResponse">>

\* the outcome of a request: a RequestException, or a status and a body
Failed == [raised |-> TRUE, status |-> 0, body |-> "none"]
Answered(status, body) == [raised |-> FALSE, status |-> status, body |-> body]

PostOutcomes ==
    {Failed, Answered(200, "ack"), Answered(400, "error"), Answered(500, "error")}

\* the body of a 200 is the JSON of an A2AResponse, not JSON, or other JSON
GetOutcomes ==
    {Failed, Answered(200, "response"), Answered(200, "not_json"),
     Answered(200, "other_json"), Answered(404, "error"), Answered(500, "error")}

\* a request made now that takes d ticks
Request(method, outcome, d) ==
    [method |-> method, at |-> clock, done |-> clock + d, outcome |-> outcome]

\* response.raise_for_status() raises
ErrorStatus(outcome) == outcome.status >= 400 /\ outcome.status < 600

ProtocolInit ==
    /\ ScorerAtRest
    /\ HelperAtRest
    /\ CallerAtRest
    /\ EvaluatorAtRest
    /\ LLMAtRest
    /\ ServerAtRest
    /\ ppc \in {"send_and_receive", "receive_response"}
    /\ max_wait_time \in -1..MaxWaitTime
    /\ poll_interval \in (IF ppc = "send_and_receive" THEN {DefaultPollInterval}
                          ELSE PollIntervals)
    /\ clock = 0 /\ start_time = 0
    /\ wire = <<>>
    /\ a2a_response = NoA2AResponse

\* return None
ReturnsNone == ppc' = "returned" /\ a2a_response' = NoA2AResponse

\* variant: the result of send_task is not looked at
SendEnds_IgnoresFailure(outcome) ==
    ppc' = "receive_response" /\ a2a_response' = a2a_response

\* send_task gives False on a RequestException and on an error status;
\* if not self.send_task(task): return None
SendEnds(outcome) ==
    IF outcome.raised \/ ErrorStatus(outcome) THEN ReturnsNone
    ELSE ppc' = "receive_response" /\ a2a_response' = a2a_response

\* send_and_receive: the POST of the task
SendTask ==
    /\ ppc = "send_and_receive"
    /\ \E outcome \in PostOutcomes, d \in 1..Timeout :
           /\ wire' = Append(wire, Request("POST", outcome, d))
           /\ clock' = clock + d
           /\ SendEnds(outcome)
    /\ UNCHANGED <<max_wait_time, poll_interval, start_time, besideProtocol>>

\* receive_response: start_time = time.time()
ReceiveStart ==
    /\ ppc = "receive_response"
    /\ start_time' = clock
    /\ ppc' = "while"
    /\ UNCHANGED <<max_wait_time, poll_interval, clock, wire, a2a_response,
                   besideProtocol>>

\* variant: the test of the loop is <=
Polling_Inclusive == clock - start_time <= max_wait_time

\* while time.time() - start_time < max_wait_time
Polling == clock - start_time < max_wait_time

\* the test of the loop; after the loop: return None
LoopTest ==
    /\ ppc = "while"
    /\ IF Polling THEN ppc' = "get" /\ a2a_response' = a2a_response
       ELSE ReturnsNone
    /\ UNCHANGED <<max_wait_time, poll_interval, clock, start_time, wire,
                   besideProtocol>>

\* variant: every status but 200 is polled again
GetEnds_PollsOnAnyStatus(outcome) ==
    IF outcome.raised THEN ReturnsNone
    ELSE IF outcome.status = 200 /\ outcome.body = "response"
         THEN ppc' = "returned" /\ a2a_response' = A2AResponse
    ELSE IF outcome.status = 200
         THEN ppc' = "raised" /\ a2a_response' = NoA2AResponse
    ELSE ppc' = "sleep" /\ a2a_response' = a2a_response

\* the body of the try: a RequestException gives None; a 200 gives the
\* A2AResponse of the body, and if the body is not one, response.json() or
\* A2AResponse(**data) raises: the error of a body that is not JSON is a
\* RequestException or not, as the version of requests has it; a 404 goes to
\* the sleep; any other status gives None
GetEnds(outcome) ==
    IF outcome.raised THEN ReturnsNone
    ELSE IF outcome.status = 200 /\ outcome.body = "response"
         THEN ppc' = "returned" /\ a2a_response' = A2AResponse
    ELSE IF outcome.status = 200 /\ outcome.body = "not_json"
         THEN ReturnsNone \/ (ppc' = "raised" /\ a2a_response' = NoA2AResponse)
    ELSE IF outcome.status = 200
         THEN ppc' = "raised" /\ a2a_response' = NoA2AResponse
    ELSE IF outcome.status = 404
         THEN ppc' = "sleep" /\ a2a_response' = a2a_response
    ELSE ReturnsNone

\* one poll: self.session.get(url, timeout=self.timeout)
Poll ==
    /\ ppc = "get"
    /\ \E outcome \in GetOutcomes, d \in 1..Timeout :
           /\ wire' = Append(wire, Request("GET", outcome, d))
           /\ clock' = clock + d
           /\ GetEnds(outcome)
    /\ UNCHANGED <<max_wait_time, poll_interval, start_time, besideProtocol>>

\* time.sleep(poll_interval): at least poll_interval passes
Sleep ==
    /\ ppc = "sleep"
    /\ \E late \in 0..1 : clock' = clock + poll_interval + late
    /\ ppc' = "while"
    /\ UNCHANGED <<max_wait_time, poll_interval, start_time, wire, a2a_response,
                   besideProtocol>>

ProtocolNext ==
    \/ SendTask
    \/ ReceiveStart
    \/ LoopTest
    \/ Poll
    \/ Sleep

SpecProtocol == ProtocolInit /\ [][ProtocolNext]_vars

\* the thread that makes the call keeps running
SpecProtocolFair == SpecProtocol /\ WF_vars(ProtocolNext)

----------------------------------------------------------------------------
(* purple_baseline/a2a_mock_server.py: the Flask application with its two  *)
(* dicts, serving requests in threads.  A JSON value is a pair of its type *)
(* and its text; a dict is the set of its items.                           *)

MaxRequests == 3

StrValue(s) == <<"str", s>>
IntValue(s) == <<"int", s>>
ListValue(s) == <<"list", s>>

\* the body of a POST: JSON or not, and the values of its two keys
Body(json, task_id, question) ==
    [json |-> json, task_id |-> task_id, question |-> question]

PostBodies ==
    {Body(FALSE, Absent, Absent),
     Body(TRUE, Absent, Absent),
     Body(TRUE, StrValue("a"), Absent),
     Body(TRUE, Absent, StrValue("q")),
     Body(TRUE, StrValue("a"), StrValue("q")),
     Body(TRUE, StrValue("a"), IntValue("5")),
     Body(TRUE, StrValue(""), StrValue("q")),
     Body(TRUE, IntValue("5"), StrValue("q")),
     Body(TRUE, ListValue("[]"), StrValue("q"))}

\* the task ids a client polls for
GetTargets == {StrValue("a"), StrValue("b"), StrValue(""), IntValue("5")}

\* the segment f"{task_id}" puts in the URL /a2a/response/<task_id>
PathOf(v) == v[2]

\* the rule "/a2a/response/<task_id>" matches a segment that is not empty
Routed(segment) == segment # ""

\* k in d, d[k], d[k] = v
Has(d, k) == \E item \in d : item.key = k
Lookup(d, k) == (CHOOSE item \in d : item.key = k).value
Store(d, k, v) == {item \in d : item.key # k} \cup {[key |-> k, value |-> v]}

TypeError == [type |-> "TypeError", lens |-> <<>>]

\* BaselinePurpleAgent.answer_question: question[:100] and question.lower()
\* raise on a question that is not a str
answer_question(question) ==
    IF question[1] = "str" THEN Returns(<<"answer">>) ELSE Raises(TypeError)

ServerInit ==
    /\ ScorerAtRest
    /\ HelperAtRest
    /\ CallerAtRest
    /\ EvaluatorAtRest
    /\ LLMAtRest
    /\ ProtocolAtRest
    /\ tasks = {} /\ responses = {}
    /\ handlers = <<>>
    /\ served = <<>>

\* the requests that have reached the server
Arrived == Len(served) + Len(handlers)

\* a request answered: what it was, the status and the task_id of the body
\* of the answer, and whether its handler wrote to a dict
Reply(method, data, status, task_id, wrote) ==
    [method |-> method, data |-> data, status |-> status, task_id |-> task_id,
     wrote |-> wrote]

PostReply(data, status, wrote) ==
    Reply("POST", data, status, IF status = 200 THEN data.task_id ELSE Absent, wrote)

Without(hs, i) == SubSeq(hs, 1, i - 1) \o SubSeq(hs, i + 1, Len(hs))

\* if not data or "task_id" not in data or "question" not in data
MissingFields(data) == data.task_id = Absent \/ data.question = Absent

\* tasks[task_id] = data
Accept(data) ==
    /\ tasks' = Store(tasks, data.task_id, data)
    /\ handlers' = Append(handlers, [pc |-> "answer", data |-> data, answer |-> <<>>])
    /\ UNCHANGED served

\* receive_task up to the storing of the task: request.get_json() raises on
\* a body that is not JSON and a list is no key of a dict, which the handler
\* of Exception answers with 500; missing fields are answered with 400
ReceiveTask ==
    /\ Arrived < MaxRequests
    /\ \E data \in PostBodies :
           IF ~data.json
           THEN /\ served' = Append(served, PostReply(data, 500, FALSE))
                /\ UNCHANGED <<tasks, handlers>>
           ELSE IF MissingFields(data)
           THEN /\ served' = Append(served, PostReply(data, 400, FALSE))
                /\ UNCHANGED <<tasks, handlers>>
           ELSE IF data.task_id[1] = "list"
           THEN /\ served' = Append(served, PostReply(data, 500, FALSE))
                /\ UNCHANGED <<tasks, handlers>>
           ELSE Accept(data)
    /\ UNCHANGED <<responses, besideServer>>

\* answer = agent.answer_question(question, metadata); an exception is
\* answered with 500
AnswerQuestion ==
    /\ \E i \in 1..Len(handlers) :
           /\ handlers[i].pc = "answer"
           /\ IF answer_question(handlers[i].data.question).raised = NoError
              THEN /\ handlers' =
                          [handlers EXCEPT ![i].pc = "respond",
                              ![i].answer =
                                  answer_question(handlers[i].data.question).value]
                   /\ UNCHANGED served
              ELSE /\ handlers' = Without(handlers, i)
                   /\ served' = Append(served, PostReply(handlers[i].data, 500, TRUE))
    /\ UNCHANGED <<tasks, responses, besideServer>>

\* responses[task_id] = {...}; return ..., 200
StoreResponse ==
    /\ \E i \in 1..Len(handlers) :
           /\ handlers[i].pc = "respond"
           /\ responses' = Store(responses, handlers[i].data.task_id,
                                 [task_id |-> handlers[i].data.task_id,
                                  answer |-> handlers[i].answer])
           /\ handlers' = Without(handlers, i)
           /\ served' = Append(served, PostReply(handlers[i].data, 200, TRUE))
    /\ UNCHANGED <<tasks, besideServer>>

\* get_response(task_id) for the URL of target; no rule: 404
GetReply(target, task_id) ==
    IF Routed(PathOf(target)) /\ Has(responses, task_id)
    THEN Reply("GET", target, 200, Lookup(responses, task_id).task_id, FALSE)
    ELSE Reply("GET", target, 404, Absent, FALSE)

\* GET /a2a/response/<task_id>: task_id is the segment, a str
GetResponse ==
    /\ Arrived < MaxRequests
    /\ \E target \in GetTargets :
           served' = Append(served, GetReply(target, StrValue(PathOf(target))))
    /\ UNCHANGED <<tasks, responses, handlers, besideServer>>

ServerNext ==
    \/ ReceiveTask
    \/ AnswerQuestion
    \/ StoreResponse
    \/ GetResponse

SpecServer == ServerInit /\ [][ServerNext]_vars

----------------------------------------------------------------------------
(* Properties of GAIAScorer.score *)

ScoreEnded == pc \in {"score_returned", "score_raised"}

Triple(sc, exact, normalized) == <<sc, exact, normalized>>

PredictedNum == _extract_number(predicted).value
GoldNum == _extract_number(gold).value

\* C1: every triple (score, exact_match, normalized_match) returned by score
\* has 0.0 <= score <= 1.0, exact_match => normalized_match, and
\* normalized_match => score = 1.0
C1_ScoreResultInvariant ==
    pc = "score_returned" =>
        /\ result[1] >= 0 /\ result[1] <= 1
        /\ result[2] => result[3]
        /\ result[3] => result[1] = 1

\* a normalized match that is not exact has been returned
C1_Witness ==
    /\ pc = "score_returned"
    /\ result[3] /\ ~result[2] /\ result[1] = 1

\* C2: score(s, s) returns (1.0, True, True) for every s, the empty string
\* included, and a pair of different strings never gets exact_match = True
C2_ExactMatchIsEquality ==
    ScoreEnded =>
        /\ predicted = gold => pc = "score_returned" /\ result = Triple(1, TRUE, TRUE)
        /\ predicted # gold /\ pc = "score_returned" => result[2] = FALSE

\* score("", "") has returned
C2_Witness ==
    /\ pc = "score_returned"
    /\ predicted = <<>> /\ gold = <<>>
    /\ result = Triple(1, TRUE, TRUE)

Letters == Lower \cup Upper

\* p and g differ only in the case of letters
DifferInCaseOnly(p, g) ==
    /\ Len(p) = Len(g)
    /\ \A i \in 1..Len(p) :
         p[i] = g[i] \/ (p[i] \in Letters /\ g[i] \in Letters /\ lower(p[i]) = lower(g[i]))

RECURSIVE WithoutPunct(_)
WithoutPunct(s) ==
    IF s = <<>> THEN <<>>
    ELSE IF Head(s) \in Punct THEN WithoutPunct(Tail(s))
    ELSE <<Head(s)>> \o WithoutPunct(Tail(s))

\* p and g differ only in punctuation characters
DifferInPunctOnly(p, g) == WithoutPunct(p) = WithoutPunct(g)

\* s with leading and trailing whitespace removed and each whitespace run
\* written as "_"
RECURSIVE Runs(_, _)
Runs(s, inRun) ==
    IF s = <<>> THEN <<>>
    ELSE IF Head(s) \in Space
         THEN (IF inRun THEN <<>> ELSE <<"_">>) \o Runs(Tail(s), TRUE)
         ELSE <<Head(s)>> \o Runs(Tail(s), FALSE)

Trimmed(s) ==
    LET r == Runs(s, TRUE)
    IN IF r # <<>> /\ r[Len(r)] = "_" THEN SubSeq(r, 1, Len(r) - 1) ELSE r

\* p and g differ only in the amount of leading, trailing or internal whitespace
DifferInWhitespaceOnly(p, g) == Trimmed(p) = Trimmed(g)

NumericalStageReached ==
    /\ ScoreEnded
    /\ predicted # gold
    /\ _normalize(predicted) # _normalize(gold)

\* score returned (1.0, False, False) if the relative error of p to g is
\* within the tolerance and (0.0, False, False) if not
ScoredByRelativeError(p, g) ==
    ~p.none /\ ~g.none /\ ~IsZero(g) =>
        /\ pc = "score_returned"
        /\ result = IF CmpRelativeError(p, g, numerical_tolerance) <= 0
                    THEN Triple(1, FALSE, FALSE)
                    ELSE Triple(0, FALSE, FALSE)

\* C4: when predicted # gold, the normalized forms differ, both strings yield
\* a number and gold's number is nonzero, score returns (1.0, False, False) if
\* |p - g| / |g| <= tolerance (equality included) and (0.0, False, False)
\* otherwise
C4_NumericalMatchInclusive ==
    NumericalStageReached => ScoredByRelativeError(PredictedNum, GoldNum)

\* "11" against "10" with tolerance 1/10: the relative error equals the tolerance
C4_Witness ==
    /\ pc = "score_returned"
    /\ numerical_tolerance = [n |-> 1, d |-> 10]
    /\ predicted = <<"1", "1">> /\ gold = <<"1", "0">>
    /\ CmpRelativeError(PredictedNum, GoldNum, numerical_tolerance) = 0
    /\ result = Triple(1, FALSE, FALSE)

\* s is in full an optional minus sign, digits and an optional decimal point
\* with digits after it
PlainNumber(s) ==
    LET i0 == IF CharAt(s, 1) = "-" THEN 2 ELSE 1
        n1 == DigitRun(s, i0)
        n2 == IF CharAt(s, i0 + n1) = "." THEN 1 + DigitRun(s, i0 + n1 + 1) ELSE 0
    IN n1 > 0 /\ i0 + n1 + n2 = Len(s) + 1

\* the relative error of p to g # 0 exceeds the tolerance
OutsideTolerance(p, g) ==
    ~IsZero(g) /\ CmpRelativeError(p, g, numerical_tolerance) > 0

\* C5: for predicted and gold that each parse in full as a number, if the
\* relative error exceeds the tolerance, score returns (0.0, False, False)
C5_OutsideToleranceScoresZero ==
    /\ pc = "score_returned"
    /\ PlainNumber(predicted) /\ PlainNumber(gold)
    /\ OutsideTolerance(PredictedNum, GoldNum)
    => result = Triple(0, FALSE, FALSE)

Zero == <<"0">>

NoDigits(s) == \A i \in 1..Len(s) : s[i] \notin Digits

\* with a gold number of 0, score returned (1.0, False, False) if the predicted
\* number is 0 and (0.0, False, False) if not
ScoredByZero(p, g) ==
    ~p.none /\ ~g.none /\ IsZero(g) =>
        /\ pc = "score_returned"
        /\ result = IF IsZero(p) THEN Triple(1, FALSE, FALSE)
                                 ELSE Triple(0, FALSE, FALSE)

\* a predicted number that is not 0 scored 0.0
NonzeroScoredZero(p) ==
    ~p.none /\ ~IsZero(p) => pc = "score_returned" /\ result[1] = 0

\* C6: score("0", "0") is (1.0, True, True); with gold "0" every predicted
\* string whose number is nonzero scores 0.0; in the numerical stage a gold
\* number of 0 matches exactly when the predicted number is 0; and no call
\* divides by zero
C6_ZeroHandling ==
    /\ raised.type # "ZeroDivisionError"
    /\ ScoreEnded /\ gold = Zero =>
        /\ predicted = Zero => result = Triple(1, TRUE, TRUE)
        /\ NonzeroScoredZero(PredictedNum)
    /\ NumericalStageReached => ScoredByZero(PredictedNum, GoldNum)

\* "1" against "0" reached the numerical stage with a gold number of 0
C6_Witness ==
    /\ pc = "score_returned"
    /\ predicted = <<"1">> /\ gold = Zero
    /\ IsZero(GoldNum) /\ ~IsZero(PredictedNum)
    /\ result = Triple(0, FALSE, FALSE)

\* C7: when predicted and gold are neither equal nor normalized-equal and one
\* of them has no number, score returns (0.0, False, False); a string with no
\* digits against "0", on either side, scores 0.0
C7_NoNumberIsNotZero ==
    /\ NumericalStageReached /\ (PredictedNum.none \/ GoldNum.none)
         => pc = "score_returned" /\ result = Triple(0, FALSE, FALSE)
    /\ ScoreEnded /\ \/ NoDigits(predicted) /\ gold = Zero
                     \/ NoDigits(gold) /\ predicted = Zero
         => pc = "score_returned" /\ result[1] = 0

\* "e" against "0": predicted has no number and gold is zero
C7_Witness ==
    /\ pc = "score_returned"
    /\ predicted = <<"e">> /\ gold = Zero
    /\ PredictedNum.none /\ IsZero(GoldNum)
    /\ result = Triple(0, FALSE, FALSE)

ScoreResults ==
    {Triple(1, TRUE, TRUE), Triple(1, FALSE, TRUE),
     Triple(1, FALSE, FALSE), Triple(0, FALSE, FALSE)}

\* C8: score never raises, whatever the two strings are; every call returns a
\* triple, the worst one being (0.0, False, False)
C8_ScoreIsTotal ==
    /\ pc # "score_raised"
    /\ pc = "score_returned" => raised = NoError /\ result \in ScoreResults

\* the empty string against "0": no number on one side, zero on the other
C8_Witness ==
    /\ pc = "score_returned"
    /\ predicted = <<>> /\ gold = Zero
    /\ result = Triple(0, FALSE, FALSE)

----------------------------------------------------------------------------
(* Properties of GAIAScorer.batch_score *)

InBatch == pc \in {"batch_check", "batch_loop", "batch_returned", "batch_raised"}

\* C9: on two sequences of equal length n, batch_score returns a sequence of
\* length n whose i-th element is score(predictions[i], golds[i]), in input
\* order; on two empty sequences it returns the empty sequence
C9_BatchIsElementwise ==
    /\ InBatch /\ Len(predictions) = Len(golds) => pc # "batch_raised"
    /\ pc = "batch_returned" =>
        /\ Len(results) = Len(predictions)
        /\ \A i \in 1..Len(predictions) :
             results[i] = score(predictions[i], golds[i], numerical_tolerance).value

\* a batch of two pairs with different outcomes has returned
C9_Witness ==
    /\ pc = "batch_returned"
    /\ Len(predictions) = 2 /\ Len(golds) = 2
    /\ results[1] = Triple(1, FALSE, TRUE)
    /\ results[2] = Triple(0, FALSE, FALSE)

\* C10: on sequences of different lengths batch_score raises the ValueError
\* that states both lengths, before any pair is scored and with no partial
\* result; it raises in no other case
C10_LengthMismatch ==
    /\ InBatch /\ Len(predictions) # Len(golds) =>
        /\ pc \in {"batch_check", "batch_raised"}
        /\ calls = 0 /\ acc = <<>> /\ results = NoResult
    /\ pc = "batch_raised" =>
        /\ Len(predictions) # Len(golds)
        /\ raised = ValueError(Len(predictions), Len(golds))

\* batch_score on two predictions and one gold has raised
C10_Witness ==
    /\ pc = "batch_raised"
    /\ Len(predictions) = 2 /\ Len(golds) = 1
    /\ raised = ValueError(2, 1)
    /\ calls = 0 /\ results = NoResult


----------------------------------------------------------------------------
(* Properties of GAIAScorer._normalize *)

NormalizeReturned == hpc = "normalize_returned"

\* C11: normalization is idempotent: normalizing a normalized string returns
\* it unchanged, normalize(normalize(s)) = normalize(s)
C11_NormalizeIdempotent ==
    NormalizeReturned => _normalize(hnormalized) = hnormalized

\* a text with an upper-case letter that normalization also shortened
C11_Witness ==
    /\ NormalizeReturned
    /\ hnormalized # <<>>
    /\ Len(hnormalized) < Len(htext)
    /\ LowerStr(htext) # htext

AllWord(s) == s # <<>> /\ \A i \in 1..Len(s) : IsWord(s[i])
AllPunct(s) == s # <<>> /\ \A i \in 1..Len(s) : ~IsWord(s[i]) /\ ~IsSpace(s[i])
AllSpace(s) == s # <<>> /\ \A i \in 1..Len(s) : IsSpace(s[i])

\* text is the tokens a and b joined by sep: what normalization makes of it
JoinedTokens(a, sep, b) ==
    /\ AllPunct(sep) =>
           /\ hnormalized = LowerStr(a) \o LowerStr(b)
           /\ ~_normalized_match(htext, a \o <<" ">> \o b)
    /\ AllSpace(sep) => hnormalized = LowerStr(a) \o <<" ">> \o LowerStr(b)

\* C12: punctuation is deleted, not replaced by a separator: two tokens
\* separated only by punctuation are concatenated, two tokens separated by
\* whitespace stay separated by exactly one space, so the tokens joined by
\* punctuation never normalized-match the same tokens joined by a space
C12_PunctuationDeleted ==
    NormalizeReturned =>
        \A i \in 1..Len(htext), j \in 1..Len(htext) :
            (/\ i <= j
             /\ AllWord(SubSeq(htext, 1, i - 1))
             /\ AllWord(SubSeq(htext, j + 1, Len(htext))))
            => JoinedTokens(SubSeq(htext, 1, i - 1), SubSeq(htext, i, j),
                            SubSeq(htext, j + 1, Len(htext)))

\* "1-1" has been normalized to "11"
C12_Witness ==
    /\ NormalizeReturned
    /\ htext = <<"1", "-", "1">>
    /\ hnormalized = <<"1", "1">>

IsKept(c) == c \in Digits \cup {"_"}

\* str.isupper() of one character
IsUpper(c) == c \in Upper \cup Caseless

\* only word characters and single ASCII spaces, no space at either end
SingleSpaced(s) ==
    /\ \A i \in 1..Len(s) : IsWord(s[i]) \/ s[i] = " "
    /\ \A i \in 1..(Len(s) - 1) : ~(s[i] = " " /\ s[i + 1] = " ")
    /\ s # <<>> => s[1] # " " /\ s[Len(s)] # " "

KeepsDigitsAndUnderscores == SelectSeq(hnormalized, IsKept) = SelectSeq(htext, IsKept)

\* C13: the output of normalize has no upper-case letter, only word
\* characters and ASCII spaces, no two consecutive spaces and no space at
\* either end; the underscores and digits of the input are kept
C13_NormalForm ==
    NormalizeReturned =>
        /\ \A i \in 1..Len(hnormalized) : ~IsUpper(hnormalized[i])
        /\ SingleSpaced(hnormalized)
        /\ KeepsDigitsAndUnderscores

\* C13 amended: the output of normalize has no character that str.lower()
\* changes (an upper-case letter without a lower-case form stays), only word
\* characters and ASCII spaces, no two consecutive spaces and no space at
\* either end; the underscores and digits of the input are kept
C13_NormalFormAmended ==
    NormalizeReturned =>
        /\ \A i \in 1..Len(hnormalized) : lower(hnormalized[i]) = hnormalized[i]
        /\ SingleSpaced(hnormalized)
        /\ KeepsDigitsAndUnderscores

\* a text with a tab, an underscore and both kinds of capital, normalized:
\* the capital without a lower case is in the output
C13_Witness ==
    /\ NormalizeReturned
    /\ \E i \in 1..Len(htext) : htext[i] \in Tab
    /\ \E i \in 1..Len(htext) : htext[i] = "_"
    /\ \E i \in 1..Len(htext) : htext[i] \in Upper
    /\ \E i \in 1..Len(hnormalized) : hnormalized[i] = " "
    /\ \E i \in 1..Len(hnormalized) : hnormalized[i] \in Caseless

----------------------------------------------------------------------------
(* Properties of GAIAScorer._extract_number *)

ExtractReturned == hpc = "extract_returned"

AllDigits(s) == \A i \in 1..Len(s) : IsDigit(s[i])

\* [eE][-+]?\d+
IsExponent(s) ==
    /\ Len(s) >= 2
    /\ s[1] \in {"e", "E"}
    /\ IF s[2] \in {"-", "+"}
       THEN Len(s) >= 3 /\ AllDigits(SubSeq(s, 3, Len(s)))
       ELSE AllDigits(Tail(s))

\* \.?\d*
IsFraction(s) == s = <<>> \/ AllDigits(s) \/ (s[1] = "." /\ AllDigits(Tail(s)))

\* \d+\.?\d*(?:[eE][-+]?\d+)?
IsUnsigned(s) ==
    \E i \in 1..Len(s), j \in 1..Len(s) :
        /\ i <= j
        /\ AllDigits(SubSeq(s, 1, i))
        /\ IsFraction(SubSeq(s, i + 1, j))
        /\ j < Len(s) => IsExponent(SubSeq(s, j + 1, Len(s)))

\* the text from i to j is 'optional minus, digits, optional decimal part,
\* optional exponent'
IsNumberAt(s, i, j) ==
    /\ i <= j
    /\ IsUnsigned(IF s[i] = "-" THEN SubSeq(s, i + 1, j) ELSE SubSeq(s, i, j))

Starts(s) == {i \in 1..Len(s) : \E j \in i..Len(s) : IsNumberAt(s, i, j)}
LeftmostStart(s) == CHOOSE i \in Starts(s) : \A k \in Starts(s) : i <= k
LongestEnd(s, i) ==
    CHOOSE j \in i..Len(s) :
        IsNumberAt(s, i, j) /\ \A k \in i..Len(s) : IsNumberAt(s, i, k) => k <= j

\* the leftmost substring of s that is a number
LeftmostNumber(s) == SubSeq(s, LeftmostStart(s), LongestEnd(s, LeftmostStart(s)))

\* the whole text is not a number but a number is found inside it
EmbeddedNumber == float(htext).raised # NoError /\ Starts(htext) # {}

\* scoring the text against the number m found inside it
ScoredByEmbedded(m) ==
    score(htext, m, numerical_tolerance)
        = Returns(Triple(1, FALSE, _normalized_match(htext, m)))

----------------------------------------------------------------------------
(* Properties of the state of the scorer *)

\* a call of score returns what the same call returned before
SameAsBefore ==
    pc' = "score_returned" /\ pc # "score_returned" =>
        \A e \in seen : (e[1] = predicted' /\ e[2] = gold') => e[3] = result'

\* C15: the tolerance, the only state of the scorer, is unchanged by every
\* call of score and batch_score, successful or failing, so after any
\* sequence of calls score(p, g) returns the same triple as the first time
C15_ToleranceUnchanged ==
    [][numerical_tolerance' = numerical_tolerance /\ SameAsBefore]_vars

\* after a failing batch_score call, a score call made before has been made
\* again and has returned the same triple
C15_Witness ==
    /\ pc = "score_returned"
    /\ failures > 0
    /\ <<predicted, gold, result>> \in seen


\* what the call of th returns when it runs alone on a scorer of tolerance tol
Alone(th, tol) ==
    IF th.kind = "score" THEN score(th.predicted, th.gold, tol)
    ELSE IF Len(th.predictions) # Len(th.golds)
         THEN Raises(ValueError(Len(th.predictions), Len(th.golds)))
    ELSE Returns([i \in 1..Len(th.predictions) |->
                     score(th.predictions[i], th.golds[i], tol).value])

\* the call of th has ended as the outcome r says
EndedAs(th, r) ==
    /\ th.pc = "returned" => r.raised = NoError /\ th.out = r.value
    /\ th.pc = "raised" => th.raised = r.raised

\* C16: callers may run score and batch_score concurrently on one scorer:
\* under every interleaving each call returns the same result as run alone,
\* and no call writes the shared state
C16_ConcurrentCalls ==
    /\ threads # <<>> => numerical_tolerance = DefaultTolerance
    /\ \A t \in DOMAIN threads :
           EndedAs(threads[t], Alone(threads[t], DefaultTolerance))

\* two calls that overlapped have both ended: a batch_score that returned two
\* triples and a score that went through the numerical stage
C16_Witness ==
    /\ threads # <<>>
    /\ \A t \in Threads : threads[t].pc = "returned" /\ threads[t].inside
    /\ \E t \in Threads : threads[t].kind = "batch_score" /\ Len(threads[t].out) = 2
    /\ \E t \in Threads :
           threads[t].kind = "score" /\ threads[t].out = Triple(0, FALSE, FALSE)


----------------------------------------------------------------------------
(* Properties of GAIAEvaluator.run_evaluation and of the question loader *)

SameRatio(a, b) == a.num * b.den = b.num * a.den

\* the summaries a and b agree in total_questions and average_score, and
\* their results agree position by position in task_id and score
SameEvaluation(a, b) ==
    /\ a.total_questions = b.total_questions
    /\ SameRatio(a.average_score, b.average_score)
    /\ \A i \in 1..Min(Len(a.results), Len(b.results)) :
           /\ a.results[i].task_id = b.results[i].task_id
           /\ a.results[i].score = b.results[i].score

\* C17: two run_evaluation runs over the same question file with the same
\* max_questions, against a deterministic purple agent and with the
\* deterministic scoring, give the same total_questions, the same
\* average_score and results that agree position by position in task_id and
\* score; also for the evaluator that shuffles with the module-level seed
C17_Reproducible ==
    (Len(summaries) = NRuns /\ ~use_llm_scoring) =>
        /\ SameEvaluation(summaries[1], summaries[2])
        /\ summaries[1].random_seed = summaries[2].random_seed

\* the number of questions run_evaluation is to evaluate
Evaluated(mq, loaded) == IF mq = NoLimit THEN loaded ELSE Min(mq[1], loaded)

\* C18: run_evaluation with max_questions = n evaluates at most n questions
\* and gives exactly one result per evaluated question, in order:
\* total_questions = len(results) = min(n, number loaded) for every n >= 0,
\* and all loaded questions when n is None
C18_OneResultPerQuestion ==
    epc = "returned" =>
        /\ summaries[run].total_questions = Len(summaries[run].results)
        /\ summaries[run].total_questions = Evaluated(max_questions, Len(qfile))
        /\ \A i \in 1..Len(summaries[run].results) :
               summaries[run].results[i].task_id = questions[i].id

InUnitRange(r) == r.den > 0 /\ 0 <= r.num /\ r.num <= r.den

\* C19: every EvaluationResult has 0.0 <= score <= 1.0 and every summary has
\* average_score in [0, 1], also with LLM scoring enabled, whatever the LLM
\* coordinator returns
C19_ScoresInRange ==
    /\ \A i \in 1..Len(evals) : evals[i].score >= 0 /\ evals[i].score <= 1
    /\ \A k \in 1..Len(summaries) : InUnitRange(summaries[k].average_score)

\* the raw item has none of "id", "question", "gold_answer" and has
\* "question_id", "query" and "answer"
HasAlternateKeys(item) ==
    /\ item.id = Absent /\ item.question = Absent /\ item.gold_answer = Absent
    /\ item.question_id # Absent /\ item.query # Absent /\ item.answer # Absent

\* C20: the loader accepts the alternate key names: a raw item without "id",
\* "question", "gold_answer" but with "question_id", "query", "answer"
\* becomes a GAIAQuestion with those values, not with empty strings
C20_AlternateKeys ==
    epc = "select" =>
        \A i \in 1..Len(qfile) :
            HasAlternateKeys(qfile[i]) =>
                questions[i] = GAIAQuestion(qfile[i].question_id, qfile[i].query,
                                            qfile[i].answer)

----------------------------------------------------------------------------
(* Properties of the score component *)

\* the numerical stage succeeds: both strings yield a number and either both
\* numbers are zero or gold's is nonzero and the relative error is within the
\* tolerance
NumbersAgree(p, g, tol) ==
    /\ ~p.none /\ ~g.none
    /\ IF IsZero(g) THEN IsZero(p) ELSE CmpRelativeError(p, g, tol) <= 0

StageSucceeds ==
    \/ predicted = gold
    \/ _normalize(predicted) = _normalize(gold)
    \/ NumbersAgree(PredictedNum, GoldNum, numerical_tolerance)

\* C21: the score component returned by score is exactly 0.0 or exactly 1.0,
\* and it is 1.0 if and only if at least one of the three stages (exact,
\* normalized, numerical) succeeds
C21_ScoreIsZeroOrOne ==
    pc = "score_returned" =>
        /\ result[1] \in {0, 1}
        /\ result[1] = 1 <=> StageSucceeds

\* a score of 1.0 by the numerical stage alone: the strings and their
\* normalized forms differ, the two numbers agree
C21_Witness ==
    /\ pc = "score_returned"
    /\ predicted # gold /\ _normalize(predicted) # _normalize(gold)
    /\ ~PredictedNum.none /\ ~GoldNum.none /\ ~IsZero(GoldNum)
    /\ result = Triple(1, FALSE, FALSE)

----------------------------------------------------------------------------
(* Properties of the evaluation loop *)

\* the purple agent delivered no answer to the i-th question of the run
Unanswered(i) == purple[questions[i].question] = NoResponse

\* C22: a question for which the purple agent delivers no answer is still
\* recorded, with predicted_answer "" and with score 0.0, exact_match False
\* and normalized_match False, for every gold answer the loader can produce
C22_NoAnswerScoresZero ==
    /\ epc = "returned" => Len(evals) = Len(questions)
    /\ \A i \in 1..Len(evals) :
           Unanswered(i) =>
               /\ evals[i].task_id = questions[i].id
               /\ evals[i].predicted_answer = <<>>
               /\ evals[i].score = 0
               /\ ~evals[i].exact_match /\ ~evals[i].normalized_match

\* the triple the scorer returns for the recorded answer of result r
Deterministic(r) == score(r.predicted_answer, r.gold_answer, numerical_tolerance).value

\* the LLM coordinator was invoked for result r
LLMInvoked(r) == r.llm_evaluation # <<>>

NeverOverridden(r, det) ==
    /\ LLMInvoked(r) => use_llm_scoring /\ det[1] = 0 /\ r.predicted_answer # <<>>
    /\ det[1] = 1 => r.score = 1
    /\ r.exact_match = det[2] /\ r.normalized_match = det[3]
    /\ r.exact_match => r.normalized_match
    /\ r.normalized_match => r.score = 1

\* C23: LLM scoring never overrides a deterministic match: the coordinator is
\* invoked only if LLM scoring is enabled, the deterministic score is 0.0 and
\* the predicted answer is non-empty; a result whose deterministic score is
\* 1.0 keeps score 1.0; the recorded flags are the deterministic flags, so
\* exact_match => normalized_match => score = 1.0 in every recorded result
C23_LLMNeverOverrides ==
    \A i \in 1..Len(evals) : NeverOverridden(evals[i], Deterministic(evals[i]))

\* with LLM scoring enabled, one result is a deterministic match and another
\* got its score from the LLM
C23_Witness ==
    /\ use_llm_scoring
    /\ \E i \in 1..Len(evals) : evals[i].normalized_match /\ evals[i].score = 1
    /\ \E i \in 1..Len(evals) : LLMInvoked(evals[i]) /\ evals[i].score = 1

----------------------------------------------------------------------------
(* Properties of GAIAEvaluator._llm_evaluate *)

\* no line of the text starts with "FINAL_SCORE:" and has a remainder that
\* parses as a number
NoParsedScore(output) ==
    \A i \in 1..Len(output) :
        ~(output[i].final /\ float(output[i].rest).raised = NoError)

FallsBack ==
    \/ ~llm.coordinator
    \/ llm.reply.raises
    \/ NoParsedScore(llm.reply.output)

\* C24: _llm_evaluate falls back to the deterministic score: when the
\* coordinator is not configured, when running it raises, or when its text
\* has no line starting with "FINAL_SCORE:" whose remainder parses as a
\* number, the returned llm_score equals the deterministic_score passed in;
\* _llm_evaluate never raises: a call ends only by returning
C24_LLMFallback ==
    /\ llm.pc \in {"rest", "call", "run", "except", "parse", "returned"}
    /\ (llm.pc = "returned" /\ FallsBack) =>
           llm.returned[1].llm_score = llm.deterministic_score

\* a call with deterministic score 1.0 returned after a text whose only
\* FINAL_SCORE line does not parse
C24_Witness ==
    /\ llm.pc = "returned"
    /\ llm.coordinator /\ ~llm.reply.raises
    /\ llm.deterministic_score = 1
    /\ \E i \in 1..Len(llm.reply.output) : llm.reply.output[i].final
    /\ NoParsedScore(llm.reply.output)
    /\ llm.returned[1].confidence = "medium"

----------------------------------------------------------------------------
(* Properties of the evaluation summary *)

\* the sum of the scores of the first n results
RECURSIVE SumOfScores(_, _)
SumOfScores(rs, n) == IF n = 0 THEN 0 ELSE SumOfScores(rs, n - 1) + rs[n].score

\* the float r is count / total, and 0.0 when total is 0; a zero denominator
\* is a division by zero
IsRate(r, count, total) ==
    /\ r.den # 0
    /\ IF total = 0 THEN r.num = 0 ELSE r.num * total = count * r.den

Consistent(s) ==
    /\ s.exact_match_count <= s.normalized_match_count
    /\ s.normalized_match_count <= s.total_questions
    /\ s.total_questions = Len(s.results)
    /\ s.total_score = SumOfScores(s.results, Len(s.results))
    /\ IsRate(s.average_score, s.total_score, s.total_questions)
    /\ IsRate(s.exact_match_rate, s.exact_match_count, s.total_questions)
    /\ IsRate(s.normalized_match_rate, s.normalized_match_count, s.total_questions)

\* C25: in every evaluation summary, exact_match_count <=
\* normalized_match_count <= total_questions = len(results), total_score is
\* the sum of the result scores, each rate is its count divided by
\* total_questions, and with no question evaluated average_score and both
\* rates are 0.0, with no division by zero
C25_SummaryConsistent ==
    \A k \in 1..Len(summaries) : Consistent(summaries[k])

\* a summary of two results: no exact match, one normalized match
C25_Witness ==
    /\ epc = "returned"
    /\ summaries[run].exact_match_count = 0
    /\ summaries[run].normalized_match_count = 1
    /\ summaries[run].total_questions = 2

----------------------------------------------------------------------------
(* Properties of A2AProtocol *)

CallEnded == ppc \in {"returned", "raised"}

Gets == {i \in 1..Len(wire) : wire[i].method = "GET"}

\* request r is a POST that failed: a request exception or an error status
PostFailed(r) ==
    r.method = "POST" /\ (r.outcome.raised \/ ErrorStatus(r.outcome))

\* request r is a GET answered with status
GetAnswered(r, status) ==
    r.method = "GET" /\ ~r.outcome.raised /\ r.outcome.status = status

\* C26: send_and_receive polls for a response only after send_task has
\* succeeded: if the POST of the task fails (request exception or error
\* status) it returns None without any GET
C26_PollsOnlyAfterSend ==
    (wire # <<>> /\ PostFailed(wire[1])) =>
        /\ ppc = "returned" /\ a2a_response = NoA2AResponse
        /\ Gets = {}

\* the POST was answered 500 and the call is over
C26_Witness ==
    /\ ppc = "returned"
    /\ Len(wire) = 1
    /\ wire[1].method = "POST" /\ wire[1].outcome.status = 500

\* the call goes on after the last request, or has ended at the deadline
GoesOn ==
    \/ ppc = "sleep"
    \/ ppc \in {"while", "get"} /\ clock >= wire[Len(wire)].done + poll_interval
    \/ /\ ppc = "returned" /\ a2a_response = NoA2AResponse
       /\ clock - start_time >= max_wait_time

\* C27: receive_response returns a non-None A2AResponse only for a poll
\* answered with status 200; a 404 makes it wait poll_interval and poll
\* again (until the deadline); any other status code or any request
\* exception makes it return None at once with no further poll
C27_PollOutcomes ==
    /\ (ppc = "returned" /\ a2a_response # NoA2AResponse) =>
           wire # <<>> /\ GetAnswered(wire[Len(wire)], 200)
    /\ \A i \in Gets :
           IF GetAnswered(wire[i], 404)
           THEN IF i < Len(wire)
                THEN /\ wire[i + 1].method = "GET"
                     /\ wire[i + 1].at >= wire[i].done + poll_interval
                ELSE GoesOn
           ELSE /\ i = Len(wire)
                /\ ~GetAnswered(wire[i], 200) =>
                       ppc = "returned" /\ a2a_response = NoA2AResponse

\* a 404, then a 200: the response is returned
C27_Witness ==
    /\ ppc = "returned" /\ a2a_response = A2AResponse
    /\ Len(wire) >= 2
    /\ GetAnswered(wire[Len(wire) - 1], 404)
    /\ wire[Len(wire)].at >= wire[Len(wire) - 1].done + poll_interval
    /\ poll_interval > 0

\* every poll was answered 404
Only404 == \A i \in Gets : GetAnswered(wire[i], 404)

WithinDeadline ==
    /\ \A i \in Gets : wire[i].at - start_time < max_wait_time
    /\ max_wait_time <= 0 => Gets = {}
    /\ (CallEnded /\ Only404) =>
           /\ ppc = "returned" /\ a2a_response = NoA2AResponse
           /\ (Gets # {} \/ wire = <<>>) => clock - start_time >= max_wait_time

\* C28: receive_response always terminates: if the agent keeps answering
\* 404, polling stops once max_wait_time has elapsed since the first poll
\* and the call returns None; with max_wait_time <= 0 it returns None
\* without polling at all
C28_ReceiveTerminates == <>CallEnded /\ []WithinDeadline

\* the agent answered 404 to two polls or more and the call returned None at
\* the deadline
C28_Witness ==
    /\ ppc = "returned" /\ a2a_response = NoA2AResponse
    /\ Cardinality(Gets) >= 2
    /\ Only404
    /\ clock - start_time >= max_wait_time

----------------------------------------------------------------------------
(* Properties of the mock purple server *)

Keys(d) == {item.key : item \in d}

\* C29: in the mock purple server, under any sequence of requests: every
\* task_id with a stored response also has a stored task; once POST
\* /a2a/task has answered 200 for a task_id, every later GET
\* /a2a/response/<task_id> answers 200 with a body whose task_id is that id;
\* a POST without task_id or question answers 400 and changes neither store
C29_MockServerStores ==
    /\ Keys(responses) \subseteq Keys(tasks)
    /\ \A i \in 1..Len(served) : \A j \in (i + 1)..Len(served) :
           (/\ served[i].method = "POST" /\ served[i].status = 200
            /\ served[j].method = "GET" /\ served[j].data = served[i].data.task_id)
           => served[j].status = 200 /\ served[j].task_id = served[i].data.task_id
    /\ \A i \in 1..Len(served) :
           (served[i].method = "POST" /\ MissingFields(served[i].data)) =>
               served[i].status = 400 /\ ~served[i].wrote

====
